---- MODULE Spec2Model ----
(***************************************************************************)
(* Model of the agent prototype: the tool server (list_tools / call_tool   *)
(* and the five placeholder tools) and the ClaudeAgent (MCP connection,    *)
(* tool execution, chat turn with one tool-feedback round).                *)
(*                                                                         *)
(* Conventions.                                                            *)
(*  - Python Optional[T]: None is << >>, a present value v is <<v>>.       *)
(*  - Python str: a sequence of pieces; concatenation and f-strings are    *)
(*    \o.  Strings supplied by a caller are sequences of characters, the   *)
(*    literal parts of an f-string are single pieces.                      *)
(*  - JSON values in tool arguments are tagged pairs <<type, value>>.       *)
(*  - Every operation is one awaited call of the single driver task, so    *)
(*    each is one action; what the outside world answers (process spawn,   *)
(*    transport, model API) is an input of the action.                     *)
(***************************************************************************)
EXTENDS Integers, Sequences, FiniteSets, TLC

VARIABLES conversation_history, mcp_session, exit_stack, config,
          lastOp, prevOp, arg, outcome, ret, exc, events,
          orphaned, driver

vars == <<conversation_history, mcp_session, exit_stack, config,
          lastOp, prevOp, arg, outcome, ret, exc, events,
          orphaned, driver>>

(***************************************************************************)
(* Bounds                                                                  *)
(***************************************************************************)
MaxHistory == 4

(***************************************************************************)
(* Python values                                                           *)
(***************************************************************************)
None == << >>

Some(v) == <<v>>

Truthy(o) == o # None

Range(f) == {f[i] : i \in DOMAIN f}

Min(a, b) == IF a < b THEN a ELSE b

Max(a, b) == IF a > b THEN a ELSE b

JNull == <<"null", << >> >>

JInt(n) == <<"int", n>>

JStr(s) == <<"str", s>>

JList(l) == <<"list", l>>

JType(j) == j[1]

JVal(j) == j[2]

\* str(x) / f"{x}" of a JSON value
PyStr(j) ==
    CASE JType(j) = "str"  -> JVal(j)
      [] JType(j) = "null" -> <<"None">>
      [] OTHER        -> <<ToString(JVal(j))>>

\* the outcome of evaluating a Python expression: a value or an exception
Value(v) == [raised |-> FALSE, value |-> v, exc |-> << >>]

Raised(msg) == [raised |-> TRUE, value |-> << >>, exc |-> msg]

(***************************************************************************)
(* tools/placeholder_tools.py                                              *)
(***************************************************************************)
TypeName(j) ==
    CASE JType(j) = "null" -> "NoneType"
      [] JType(j) = "int"  -> "int"
      [] JType(j) = "str"  -> "str"
      [] OTHER        -> "list"

\* f(**arguments): the keyword arguments must fit the signature
Bind(fname, params, required, arguments) ==
    IF ~(DOMAIN arguments \subseteq params)
    THEN Raised(<<fname, "() got an unexpected keyword argument">>)
    ELSE IF ~(required \subseteq DOMAIN arguments)
    THEN Raised(<<fname, "() missing required positional argument">>)
    ELSE Value(arguments)

\* len(x)
PyLen(j) ==
    IF JType(j) \in {"str", "list"}
    THEN Value(Len(JVal(j)))
    ELSE Raised(<<"object of type '", TypeName(j), "' has no len()">>)

\* operations.get(operation, "Unknown operation")
DictGet(table, key) ==
    IF JType(key) = "list"
    THEN Raised(<<"unhashable type: 'list'">>)
    ELSE IF JType(key) = "str" /\ JVal(key) \in DOMAIN table
    THEN Value(table[JVal(key)])
    ELSE Value(<<"Unknown operation">>)

SearchResult(i, query) ==
    [title   |-> <<"Result ", ToString(i), " for '">> \o PyStr(query) \o <<"'">>,
     url     |-> <<"https://example.com/result-", ToString(i)>>,
     snippet |-> <<"This is a placeholder snippet for result ", ToString(i),
                   " about ">> \o PyStr(query) \o <<".">>]

\* a search that delivers as many results as were asked for
web_search_Uncapped(arguments) ==
    LET query       == arguments.query
        max_results == IF "max_results" \in DOMAIN arguments
                       THEN arguments.max_results ELSE JInt(10)
    IN  IF JType(max_results) # "int"
        THEN Raised(<<"'<' not supported between instances of 'int' and '",
                      TypeName(max_results), "'">>)
        ELSE Value([query         |-> query,
                    results       |-> [i \in 1..Max(0, JVal(max_results))
                                         |-> SearchResult(i, query)],
                    total_results |-> JVal(max_results)])

web_search(arguments) ==
    LET query       == arguments.query
        max_results == IF "max_results" \in DOMAIN arguments
                       THEN arguments.max_results ELSE JInt(10)
    IN  IF JType(max_results) # "int"
        THEN Raised(<<"'<' not supported between instances of 'int' and '",
                      TypeName(max_results), "'">>)
        ELSE Value([query         |-> query,
                    results       |-> [i \in 1..Max(0, Min(JVal(max_results), 3))
                                         |-> SearchResult(i, query)],
                    total_results |-> JVal(max_results)])

file_operations(arguments) ==
    LET operation == arguments.operation
        path      == arguments.path
        content   == IF "content" \in DOMAIN arguments
                     THEN arguments.content ELSE JNull
        length    == CASE JType(content) = "null" -> Value(0)
                       [] JType(content) = "int" /\ JVal(content) = 0 -> Value(0)
                       [] OTHER -> PyLen(content)
    IN  IF length.raised THEN length
        ELSE
        LET operations ==
              (<<"read">>   :> (<<"Reading file: ">> \o PyStr(path))) @@
              (<<"write">>  :> (<<"Writing to file: ">> \o PyStr(path)
                                 \o <<" with ", ToString(length.value), " characters">>)) @@
              (<<"delete">> :> (<<"Deleting file: ">> \o PyStr(path))) @@
              (<<"list">>   :> (<<"Listing directory: ">> \o PyStr(path)))
            message == DictGet(operations, operation)
        IN  IF message.raised THEN message
            ELSE Value([operation |-> operation,
                        path      |-> path,
                        status    |-> <<"success">>,
                        message   |-> message.value,
                        content   |-> IF operation = JStr(<<"read">>)
                                      THEN content ELSE JNull])

RECURSIVE CountOf(_, _)
CountOf(s, c) ==
    IF s = << >> THEN 0
    ELSE (IF s[1] = c THEN 1 ELSE 0) + CountOf(Tail(s), c)

code_analysis(arguments) ==
    LET code     == arguments.code
        language == IF "language" \in DOMAIN arguments
                    THEN arguments.language ELSE JStr(<<"python">>)
    IN  IF JType(code) # "str"
        THEN Raised(<<"'", TypeName(code), "' object has no attribute 'split'">>)
        ELSE Value([language         |-> language,
                    lines_of_code    |-> CountOf(JVal(code), "\n") + 1,
                    complexity_score |-> <<"7.5">>,
                    issues |-> <<[type |-> "warning", line |-> 10,
                                  message |-> <<"This is a placeholder warning message">>],
                                 [type |-> "info", line |-> 25,
                                  message |-> <<"This is a placeholder info message">>]>>,
                    suggestions |-> <<"Consider adding more documentation",
                                      "This is a placeholder suggestion">>])

\* a processing step that always reports one record less than it was given
data_processing_NoFloor(arguments) ==
    LET data      == arguments.data
        operation == arguments.operation
        length    == PyLen(data)
    IN  IF length.raised THEN length
        ELSE
        LET n == length.value
            message == DictGet((<<"filter">> :> <<"Filtered ", ToString(n), " records">>),
                               operation)
        IN  IF message.raised THEN message
            ELSE Value([operation    |-> operation,
                        input_count  |-> n,
                        output_count |-> n - 1,
                        status       |-> <<"completed">>,
                        message      |-> message.value,
                        preview      |-> IF n # 0
                                         THEN SubSeq(JVal(data), 1, Min(2, n))
                                         ELSE << >>])

data_processing(arguments) ==
    LET data      == arguments.data
        operation == arguments.operation
        length    == PyLen(data)
    IN  IF length.raised THEN length
        ELSE
        LET n == length.value
            operations ==
              (<<"filter">>    :> <<"Filtered ", ToString(n), " records">>) @@
              (<<"sort">>      :> <<"Sorted ", ToString(n), " records">>) @@
              (<<"aggregate">> :> <<"Aggregated ", ToString(n), " records">>) @@
              (<<"transform">> :> <<"Transformed ", ToString(n), " records">>)
            message == DictGet(operations, operation)
        IN  IF message.raised THEN message
            ELSE Value([operation    |-> operation,
                        input_count  |-> n,
                        output_count |-> Max(0, n - 1),
                        status       |-> <<"completed">>,
                        message      |-> message.value,
                        preview      |-> IF n # 0
                                         THEN SubSeq(JVal(data), 1, Min(2, n))
                                         ELSE << >>])

system_info(arguments) ==
    Value([platform     |-> "placeholder_os",
           architecture |-> "x64",
           memory_usage |-> "45%",
           cpu_usage    |-> "23%",
           disk_space   |-> "78% used",
           uptime       |-> "5 days, 3 hours",
           processes    |-> 127])

(***************************************************************************)
(* mcp_server/server.py                                                    *)
(***************************************************************************)
Tool(name, description, properties, required) ==
    [name        |-> name,
     description |-> description,
     inputSchema |-> [type |-> "object", properties |-> properties,
                      required |-> required]]

list_tools ==
    <<Tool("web_search", "Search the web for information",
           {"query", "max_results"}, {"query"}),
      Tool("file_operations", "Perform file operations (read, write, delete, list)",
           {"operation", "path", "content"}, {"operation", "path"}),
      Tool("code_analysis", "Analyze code for issues and suggestions",
           {"code", "language"}, {"code"}),
      Tool("data_processing", "Process data with various operations",
           {"data", "operation"}, {"data", "operation"}),
      Tool("system_info", "Get system information", {}, {})>>

TextContent(text) == [type |-> "text", text |-> text]

\* result = await <tool>(**arguments), or raise ValueError for an unknown name
Dispatch(name, arguments) ==
    LET Call(params, required) == Bind(name, params, required, arguments)
    IN  CASE name = "web_search" ->
               LET b == Call({"query", "max_results"}, {"query"})
               IN  IF b.raised THEN b ELSE web_search(arguments)
          [] name = "file_operations" ->
               LET b == Call({"operation", "path", "content"}, {"operation", "path"})
               IN  IF b.raised THEN b ELSE file_operations(arguments)
          [] name = "code_analysis" ->
               LET b == Call({"code", "language"}, {"code"})
               IN  IF b.raised THEN b ELSE code_analysis(arguments)
          [] name = "data_processing" ->
               LET b == Call({"data", "operation"}, {"data", "operation"})
               IN  IF b.raised THEN b ELSE data_processing(arguments)
          [] name = "system_info" ->
               LET b == Call({}, {})
               IN  IF b.raised THEN b ELSE system_info(arguments)
          [] OTHER -> Raised(<<"Unknown tool: ", name>>)

\* the handler: every exception becomes an ordinary text answer
call_tool(name, arguments) ==
    LET result == Dispatch(name, arguments)
    IN  IF result.raised
        THEN <<TextContent(<<"Error: ">> \o result.exc)>>
        ELSE <<TextContent(<<ToString(result.value)>>)>>

(***************************************************************************)
(* agent/claude_agent.py                                                   *)
(*                                                                         *)
(* The agent object is the record [conversation_history, mcp_session,      *)
(* exit_stack].  A method is an operator from the object, the log of       *)
(* outbound calls made so far and the answers of the outside world to the  *)
(* result [s, log, raised, exc, ret]: the object afterwards, the log, and  *)
(* either the returned value or the exception that left the method.        *)
(***************************************************************************)
Message(role, content) == [role |-> role, content |-> content]

\* the configuration main.py and test_mcp.py construct the agent with
AgentConfig ==
    [model |-> "claude-3-5-sonnet-20241022", max_tokens |-> 4000,
     temperature |-> "0.7",
     mcp_server_command |-> <<"python", "-m", "src.agent_prototype.mcp_server.server">>]

Return(s, log, value) ==
    [s |-> s, log |-> log, raised |-> FALSE, exc |-> << >>, ret |-> value]

Raise(s, log, msg) ==
    [s |-> s, log |-> log, raised |-> TRUE, exc |-> msg, ret |-> None]

\* one outbound call: the session it was sent on, what was sent, what came back
\* (for a connect attempt: the exit stack that self.exit_stack held before)
Ev(kind, session, name, input, request, response) ==
    [kind |-> kind, session |-> session, name |-> name, input |-> input,
     request |-> request, response |-> response]

ClientSession(initialized) == [initialized |-> initialized]

\* the exception of a request that got no answer
TransportError(request) == <<request, " request failed">>

\* the exception a failed step of connect raises
ConnectError(connect) ==
    CASE connect = "spawn_fail"      -> <<"server process could not be started">>
      [] connect = "session_fail"    -> <<"client session could not be opened">>
      [] OTHER                       -> <<"initialize did not complete">>

\* an attempt that lets go of its exit stack when initialize fails, and keeps
\* the session
Attempt_DropsStack(s, log, connect) ==
    CASE connect = "spawn_fail" ->
           Raise([s EXCEPT !.exit_stack = Some(<< >>)], log, ConnectError(connect))
      [] connect = "session_fail" ->
           Raise([s EXCEPT !.exit_stack = Some(<<"stdio_client">>)], log,
                 ConnectError(connect))
      [] connect = "initialize_fail" ->
           Raise([s EXCEPT !.exit_stack = None,
                           !.mcp_session = Some(ClientSession(FALSE))],
                 log, ConnectError(connect))
      [] OTHER ->
           Return([s EXCEPT !.exit_stack = Some(<<"stdio_client", "ClientSession">>),
                            !.mcp_session = Some(ClientSession(TRUE))],
                  log, None)

\* one attempt: exit_stack is replaced, then each step may raise
Attempt(s, log, connect) ==
    CASE connect = "spawn_fail" ->
           Raise([s EXCEPT !.exit_stack = Some(<< >>)], log, ConnectError(connect))
      [] connect = "session_fail" ->
           Raise([s EXCEPT !.exit_stack = Some(<<"stdio_client">>)], log,
                 ConnectError(connect))
      [] connect = "initialize_fail" ->
           Raise([s EXCEPT !.exit_stack = Some(<<"stdio_client", "ClientSession">>),
                           !.mcp_session = Some(ClientSession(FALSE))],
                 log, ConnectError(connect))
      [] OTHER ->
           Return([s EXCEPT !.exit_stack = Some(<<"stdio_client", "ClientSession">>),
                            !.mcp_session = Some(ClientSession(TRUE))],
                  log, None)

connect_to_mcp_server(s, log, connect) ==
    IF s.mcp_session # None
    THEN Return(s, log, None)
    ELSE Attempt(s, Append(log, Ev("connect", s.mcp_session, "", << >>, s.exit_stack,
                                   connect)),
                 connect)

disconnect_KeepsSession(s, log) ==
    IF Truthy(s.exit_stack)
    THEN Return([s EXCEPT !.exit_stack = None],
                Append(log, Ev("aclose", s.mcp_session, "", << >>, << >>, "ok")),
                None)
    ELSE Return(s, log, None)

disconnect_from_mcp_server(s, log) ==
    IF Truthy(s.exit_stack)
    THEN Return([s EXCEPT !.exit_stack = None, !.mcp_session = None],
                Append(log, Ev("aclose", s.mcp_session, "", << >>, << >>, "ok")),
                None)
    ELSE Return(s, log, None)

\* Tool objects to dictionaries
ToolDict(tool) ==
    [name |-> tool.name, description |-> tool.description,
     input_schema |-> tool.inputSchema]

\* if not self.mcp_session: await self.connect_to_mcp_server()
EnsureConnected(s, log, connect) ==
    IF ~Truthy(s.mcp_session)
    THEN connect_to_mcp_server(s, log, connect)
    ELSE Return(s, log, None)

\* a conversion that hands the tools back last first
ListTools_Reversed(c, list) ==
    IF c.raised THEN c
    ELSE IF c.s.mcp_session = None
    THEN Raise(c.s, c.log, <<"'NoneType' object has no attribute 'list_tools'">>)
    ELSE IF list = "fail"
    THEN Raise(c.s,
               Append(c.log, Ev("list_tools", c.s.mcp_session, "", << >>, << >>, list)),
               TransportError("list_tools"))
    ELSE Return(c.s,
                Append(c.log, Ev("list_tools", c.s.mcp_session, "", << >>, << >>, list)),
                [i \in DOMAIN list_tools |-> ToolDict(list_tools[Len(list_tools) + 1 - i])])

\* result = await self.mcp_session.list_tools(), and the conversion (lines 73-84);
\* c is the outcome of the connect step before it
ListTools(c, list) ==
    IF c.raised THEN c
    ELSE IF c.s.mcp_session = None
    THEN Raise(c.s, c.log, <<"'NoneType' object has no attribute 'list_tools'">>)
    ELSE IF list = "fail"
    THEN Raise(c.s,
               Append(c.log, Ev("list_tools", c.s.mcp_session, "", << >>, << >>, list)),
               TransportError("list_tools"))
    ELSE Return(c.s,
                Append(c.log, Ev("list_tools", c.s.mcp_session, "", << >>, << >>, list)),
                [i \in DOMAIN list_tools |-> ToolDict(list_tools[i])])

get_available_tools(s, log, env) ==
    ListTools(EnsureConnected(s, log, env.connect), env.list)

format_tools_for_claude(tools) == tools

RECURSIVE TextOf(_)
\* the concatenation of the text of the blocks that carry text
TextOf(content) ==
    IF content = << >> THEN << >>
    ELSE (IF content[1].type = "text" THEN content[1].text ELSE << >>)
         \o TextOf(Tail(content))

RECURSIVE ResultText(_)
\* text_content: the concatenation of the text of the result's content items
ResultText(content) ==
    IF content = << >> THEN << >>
    ELSE (IF "text" \in DOMAIN content[1] THEN content[1].text ELSE << >>)
         \o ResultText(Tail(content))

ToolResult(success, result, error) ==
    [success |-> success, result |-> result, error |-> error]

CallTool_NoTry(c, tool_name, tool_arguments, transport) ==
    IF c.raised THEN c
    ELSE IF transport = "fail" \/ c.s.mcp_session = None
    THEN Raise(c.s,
               Append(c.log, Ev("call_tool", c.s.mcp_session, tool_name,
                                tool_arguments, << >>, transport)),
               TransportError("call_tool"))
    ELSE Return(c.s,
                Append(c.log, Ev("call_tool", c.s.mcp_session, tool_name,
                                 tool_arguments, << >>, transport)),
                ToolResult(TRUE, Some(ResultText(call_tool(tool_name, tool_arguments))),
                           None))

\* the try block of execute_tool_call (lines 95-115); c is the outcome of the
\* connect step before it, whose exception is not caught
CallTool(c, tool_name, tool_arguments, transport) ==
    IF c.raised THEN c
    ELSE IF c.s.mcp_session = None
    THEN Return(c.s, c.log,
                ToolResult(FALSE, None,
                           Some(<<"'NoneType' object has no attribute 'call_tool'">>)))
    ELSE IF transport = "fail"
    THEN Return(c.s,
                Append(c.log, Ev("call_tool", c.s.mcp_session, tool_name,
                                 tool_arguments, << >>, transport)),
                ToolResult(FALSE, None, Some(TransportError("call_tool"))))
    ELSE Return(c.s,
                Append(c.log, Ev("call_tool", c.s.mcp_session, tool_name,
                                 tool_arguments, << >>, transport)),
                ToolResult(TRUE, Some(ResultText(call_tool(tool_name, tool_arguments))),
                           None))

execute_tool_call(s, log, tool_name, tool_arguments, connect, transport) ==
    CallTool(EnsureConnected(s,
                             Append(log, Ev("execute_tool_call", s.mcp_session,
                                            tool_name, tool_arguments, << >>, << >>)),
                             connect),
             tool_name, tool_arguments, transport)

TextBlock(text) ==
    [type |-> "text", text |-> text, id |-> "", name |-> "", input |-> << >>]

ToolUseBlock(id, name, input) ==
    [type |-> "tool_use", text |-> << >>, id |-> id, name |-> name, input |-> input]

\* what self.client.messages.create does: it answers with content blocks or raises
ApiResponse(content) == [raised |-> FALSE, exc |-> << >>, content |-> content]

ApiError(msg) == [raised |-> TRUE, exc |-> msg, content |-> << >>]

\* response.content and any(block.type == "tool_use" for block in response.content)
HasToolUse(content) ==
    content # << >> /\ \E i \in DOMAIN content : content[i].type = "tool_use"

\* json.dumps(tool_result, indent=2)
JsonDumps(tool_result) == <<ToString(tool_result)>>

ToolCallOf_NoInput(block) == [name |-> block.name, input |-> << >>]

\* the call of execute_tool_call for one tool_use block
ToolCallOf(block) == [name |-> block.name, input |-> block.input]

\* the entry of tool_results for one executed block
ToolResultEntry(block, tool_result) ==
    [tool_use_id |-> block.id, content |-> JsonDumps(tool_result)]

LoopResult(s, log, raised, e, assistant_message, tool_results) ==
    [s |-> s, log |-> log, raised |-> raised, exc |-> e,
     assistant_message |-> assistant_message, tool_results |-> tool_results]

RECURSIVE ToolLoop(_, _, _, _, _, _)
RECURSIVE ToolStep(_, _, _, _, _)

\* for block in response.content: collect the text, execute the tool_use blocks
ToolLoop(s, log, content, assistant_message, tool_results, env) ==
    IF content = << >>
    THEN LoopResult(s, log, FALSE, << >>, assistant_message, tool_results)
    ELSE CASE content[1].type = "text" ->
                ToolLoop(s, log, Tail(content), assistant_message \o content[1].text,
                         tool_results, env)
           [] content[1].type = "tool_use" ->
                ToolStep(execute_tool_call(s, log, ToolCallOf(content[1]).name,
                                           ToolCallOf(content[1]).input, env.connect,
                                           env.call[Len(tool_results) + 1]),
                         content, assistant_message, tool_results, env)
           [] OTHER ->
                ToolLoop(s, log, Tail(content), assistant_message, tool_results, env)

\* a loop that puts each new result in front of the earlier ones
ToolStep_Prepends(r, content, assistant_message, tool_results, env) ==
    IF r.raised
    THEN LoopResult(r.s, r.log, TRUE, r.exc, assistant_message, tool_results)
    ELSE ToolLoop(r.s, r.log, Tail(content), assistant_message,
                  <<ToolResultEntry(content[1], r.ret)>> \o tool_results, env)

\* lines 158-161: r is the outcome of execute_tool_call for the block content[1]
ToolStep(r, content, assistant_message, tool_results, env) ==
    IF r.raised
    THEN LoopResult(r.s, r.log, TRUE, r.exc, assistant_message, tool_results)
    ELSE ToolLoop(r.s, r.log, Tail(content), assistant_message,
                  Append(tool_results, ToolResultEntry(content[1], r.ret)), env)

\* an append that starts the list over
AppendHistory_StartsOver(s, message) ==
    [s EXCEPT !.conversation_history = <<message>>]

AppendHistory(s, message) ==
    [s EXCEPT !.conversation_history = Append(@, message)]

\* self.client.messages.create(...): the request is logged with its answer
Create(log, messages, tools, answer) ==
    Append(log, Ev("messages.create", None, "", << >>,
                   [messages |-> messages, tools |-> tools], answer))

\* lines 200-210: the regular text response
TextResponse(s, log, content) ==
    Return(AppendHistory(s, Message("assistant", TextOf(content))), log, TextOf(content))

FinalResponse_RunsTools(s, log, content) ==
    TextResponse(s,
                 ToolLoop(s, log, content, << >>, << >>,
                          [connect |-> "ok", call |-> [i \in DOMAIN content |-> "ok"]]).log,
                 content)

\* lines 189-198: what is done with the follow-up response
FinalResponse(s, log, content) ==
    Return(AppendHistory(s, Message("assistant", TextOf(content))), log, TextOf(content))

\* if tool_results: (line 170)
FollowUpNeeded(tool_results) == tool_results # << >>

\* lines 181-198: the follow-up call was logged; it raised or it answered
FinalAnswer(s, log, final) ==
    IF final.raised
    THEN Raise(s, log, final.exc)
    ELSE FinalResponse(s, log, final.content)

\* a follow-up that also files the tool results in the history
FollowUp_StoresResults(s, log, messages, content, tool_results, formatted_tools, env) ==
    FinalAnswer(AppendHistory(s, Message("tool", tool_results)),
                Create(log,
                       messages \o <<[role |-> "assistant", content |-> content],
                                     [role |-> "user", content |-> tool_results]>>,
                       Some(formatted_tools), env.final),
                env.final)

\* lines 170-198: send the tool results back and take the final response
FollowUp(s, log, messages, content, tool_results, formatted_tools, env) ==
    FinalAnswer(s,
                Create(log,
                       messages \o <<[role |-> "assistant", content |-> content],
                                     [role |-> "user", content |-> tool_results]>>,
                       Some(formatted_tools), env.final),
                env.final)

AssistantText_Always(s, assistant_message) ==
    AppendHistory(s, Message("assistant", assistant_message))

\* lines 163-167: the accompanying text goes to the history
AssistantText(s, assistant_message) ==
    IF assistant_message # << >>
    THEN AppendHistory(s, Message("assistant", assistant_message))
    ELSE s

\* messages = [{"role": msg.role, "content": msg.content} for msg in history]
MessagesOf(history) ==
    [i \in DOMAIN history |->
        [role |-> history[i].role, content |-> history[i].content]]

\* a follow-up whose message list is taken from the history once more, after
\* the accompanying text was filed
AfterLoop_SnapshotLate(loop, messages, content, formatted_tools, env) ==
    IF loop.raised
    THEN Raise(loop.s, loop.log, loop.exc)
    ELSE IF FollowUpNeeded(loop.tool_results)
    THEN FollowUp(AssistantText(loop.s, loop.assistant_message), loop.log,
                  MessagesOf(AssistantText(loop.s, loop.assistant_message)
                                 .conversation_history),
                  content, loop.tool_results, formatted_tools, env)
    ELSE TextResponse(AssistantText(loop.s, loop.assistant_message), loop.log, content)

\* lines 163-210: what follows the tool loop, whose outcome is loop
AfterLoop(loop, messages, content, formatted_tools, env) ==
    IF loop.raised
    THEN Raise(loop.s, loop.log, loop.exc)
    ELSE IF FollowUpNeeded(loop.tool_results)
    THEN FollowUp(AssistantText(loop.s, loop.assistant_message), loop.log, messages,
                  content, loop.tool_results, formatted_tools, env)
    ELSE TextResponse(AssistantText(loop.s, loop.assistant_message), loop.log, content)

\* lines 142-210: the first model call was logged; it raised or it answered
FirstAnswer(s, log, messages, formatted_tools, env) ==
    IF env.first.raised
    THEN Raise(s, log, env.first.exc)
    ELSE IF HasToolUse(env.first.content)
    THEN AfterLoop(ToolLoop(s, log, env.first.content, << >>, << >>, env),
                   messages, env.first.content, formatted_tools, env)
    ELSE TextResponse(s, log, env.first.content)

\* the body of the try block of chat (lines 133-210)
ChatTry(s, log, messages, formatted_tools, env) ==
    FirstAnswer(s,
                Create(log, messages,
                       IF formatted_tools # << >> THEN Some(formatted_tools) ELSE None,
                       env.first),
                messages, formatted_tools, env)

\* an except branch that files the error message and returns the bare exception text
ChatExcept_ReturnsBare(s, log, e) ==
    Return(AppendHistory(s, Message("assistant",
                                    <<"Error communicating with Claude: ">> \o e)),
           log, e)

\* the except branch of chat (lines 212-217)
ChatExcept(s, log, e) ==
    Return(AppendHistory(s, Message("assistant",
                                    <<"Error communicating with Claude: ">> \o e)),
           log, <<"Error communicating with Claude: ">> \o e)

\* try ... except Exception (lines 132, 212): body is the outcome of the try block
Caught(body) ==
    IF body.raised THEN ChatExcept(body.s, body.log, body.exc) ELSE body

Discover_Retry(s, log, env) ==
    get_available_tools(get_available_tools(s, log, env).s,
                        get_available_tools(s, log, env).log, env)

\* the first steps of chat, outside the try block (lines 119-124)
Discover(s, log, env) == get_available_tools(s, log, env)

\* lines 124-217: g is the outcome of get_available_tools
AfterDiscover(g, env) ==
    IF g.raised THEN g
    ELSE Caught(ChatTry(g.s, g.log, MessagesOf(g.s.conversation_history),
                        format_tools_for_claude(g.ret), env))

\* a chat that files the user message only once tool discovery succeeded
chat_AppendsLate(s, user_message, env) ==
    IF Discover(s, << >>, env).raised
    THEN Discover(s, << >>, env)
    ELSE AfterDiscover(Discover(AppendHistory(s, Message("user", user_message)),
                                << >>, env),
                       env)

chat(s, user_message, env) ==
    AfterDiscover(Discover(AppendHistory(s, Message("user", user_message)), << >>, env),
                  env)

get_conversation_history(s) == s.conversation_history

\* a clear that also lets go of the connection
clear_AndDisconnect(s) ==
    [s EXCEPT !.conversation_history = << >>, !.mcp_session = None, !.exit_stack = None]

clear_conversation(s) == [s EXCEPT !.conversation_history = << >>]

(***************************************************************************)
(* The inputs: what callers pass and what the outside world answers        *)
(***************************************************************************)
\* what the user types: the opening message of a conversation, then the next
UserMessages ==
    IF conversation_history = << >> THEN {<<"h", "i">>} ELSE {<<"g", "o">>}

ConnectOutcomes == {"ok", "spawn_fail", "session_fail", "initialize_fail"}

TransportOutcomes == {"ok", "fail"}

RegisteredNames == {list_tools[i].name : i \in DOMAIN list_tools}

Test == <<"t", "e", "s", "t">>

ArgsSearch == [query |-> JStr(Test), max_results |-> JInt(10)]

ArgsSearchNull == [query |-> JStr(Test), max_results |-> JNull]

ArgsData == [data |-> JList(<<1, 2, 3>>), operation |-> JStr(<<"sum">>)]

\* tool invocations: fitting ones, an unknown tool, arguments that do not fit
\* the signature, and arguments on which the tool body raises
ToolCalls ==
    {[name |-> "system_info",     input |-> << >>],
     [name |-> "web_search",      input |-> ArgsSearch],
     [name |-> "data_processing", input |-> ArgsData],
     [name |-> "bogus_tool",      input |-> << >>],
     [name |-> "web_search",      input |-> << >>],
     [name |-> "system_info",     input |-> ArgsData],
     [name |-> "web_search",      input |-> ArgsSearchNull]}

FirstContents ==
    {<< >>,
     <<TextBlock(<<"Hello">>)>>,
     <<ToolUseBlock("toolu_1", "web_search", ArgsSearch)>>,
     <<TextBlock(<<"Let me check.">>), ToolUseBlock("toolu_1", "bogus_tool", << >>)>>,
     <<ToolUseBlock("toolu_1", "web_search", ArgsSearchNull), TextBlock(<< >>),
       ToolUseBlock("toolu_2", "system_info", ArgsData)>>}

FinalContents ==
    {<<TextBlock(<<"Done">>)>>,
     <<TextBlock(<<"More">>), ToolUseBlock("toolu_3", "system_info", << >>)>>}

ApiErrors == {ApiError(<<"overloaded">>)}

FirstAnswers == {ApiResponse(c) : c \in FirstContents} \cup ApiErrors

FinalAnswers == {ApiResponse(c) : c \in FinalContents} \cup ApiErrors

NumToolUse(content) ==
    Cardinality({i \in DOMAIN content : content[i].type = "tool_use"})

\* the answers that are asked for: a connect attempt is only made without a
\* session, the model is only called once discovery succeeded, a tool is only
\* called per tool_use block, the follow-up call is only made after tools ran
ConnectChoices == IF Truthy(mcp_session) THEN {"ok"} ELSE ConnectOutcomes

ListChoices(connect) == IF connect = "ok" THEN TransportOutcomes ELSE {"fail"}

FirstChoices(list) == IF list = "ok" THEN FirstAnswers ELSE ApiErrors

CallChoices(first) == [1..NumToolUse(first.content) -> TransportOutcomes]

FinalChoices(first) ==
    IF NumToolUse(first.content) > 0 THEN FinalAnswers ELSE ApiErrors

(***************************************************************************)
(* The state machine: one action per method called by a driver             *)
(***************************************************************************)
Agent ==
    [conversation_history |-> conversation_history,
     mcp_session |-> mcp_session, exit_stack |-> exit_stack, config |-> config]

\* the server processes an exit stack holds open
Holds(stack) ==
    IF stack # None /\ "stdio_client" \in Range(stack[1]) THEN 1 ELSE 0

\* self.exit_stack = AsyncExitStack() (line 47) drops the stack held before
\* without closing it: a connect attempt of the log left a process open and
\* out of reach
Dropped(log) ==
    \E i \in DOMAIN log : log[i].kind = "connect" /\ Holds(log[i].request) = 1

\* no driver is running: the methods are called in any order
NoDriver == [pc |-> "api", mode |-> "", queries |-> 0, fatal |-> FALSE, printed |-> ""]

\* ClaudeAgent.__init__
AgentInit ==
    /\ config = AgentConfig
    /\ conversation_history = << >>
    /\ mcp_session = None
    /\ exit_stack = None
    /\ orphaned = FALSE

\* no method was called yet
NoCall ==
    /\ lastOp = "__init__"
    /\ prevOp = "__init__"
    /\ outcome = "returned"
    /\ ret = << >>
    /\ exc = << >>
    /\ events = << >>

Init == AgentInit /\ NoCall /\ arg = << >> /\ driver = NoDriver

\* the method op ends with result r
Finish(op, a, r) ==
    /\ conversation_history' = r.s.conversation_history
    /\ mcp_session' = r.s.mcp_session
    /\ exit_stack' = r.s.exit_stack
    /\ config' = r.s.config
    /\ lastOp' = op
    /\ prevOp' = lastOp
    /\ arg' = a
    /\ outcome' = IF r.raised THEN "raised" ELSE "returned"
    /\ ret' = r.ret
    /\ exc' = r.exc
    /\ events' = r.log
    /\ orphaned' = (orphaned \/ Dropped(r.log))

\* the calls a driver can make, with the answers of the outside world
DoConnect ==
    \E connect \in ConnectChoices :
        Finish("connect_to_mcp_server", << >>,
               connect_to_mcp_server(Agent, << >>, connect))

DoDisconnect ==
    Finish("disconnect_from_mcp_server", << >>,
           disconnect_from_mcp_server(Agent, << >>))

DoGetAvailableTools ==
    \E connect \in ConnectChoices : \E list \in ListChoices(connect) :
        Finish("get_available_tools", << >>,
               get_available_tools(Agent, << >>, [connect |-> connect, list |-> list]))

DoExecuteToolCall(calls) ==
    \E tc \in calls :
    \E connect \in ConnectChoices : \E transport \in ListChoices(connect) :
        Finish("execute_tool_call", tc,
               execute_tool_call(Agent, << >>, tc.name, tc.input, connect, transport))

DoChat ==
    \E user_message \in UserMessages :
    \E connect \in ConnectChoices : \E list \in ListChoices(connect) :
    \E first \in FirstChoices(list) :
    \E call \in CallChoices(first), final \in FinalChoices(first) :
        Finish("chat", user_message,
               chat(Agent, user_message,
                    [connect |-> connect, list |-> list, first |-> first,
                     call |-> call, final |-> final]))

DoGetConversationHistory ==
    Finish("get_conversation_history", << >>,
           Return(Agent, << >>, get_conversation_history(Agent)))

DoClearConversation ==
    Finish("clear_conversation", << >>,
           Return(clear_conversation(Agent), << >>, None))

\* the methods called in any order, by no particular driver
Connect == DoConnect /\ UNCHANGED driver

Disconnect == DoDisconnect /\ UNCHANGED driver

GetAvailableTools == DoGetAvailableTools /\ UNCHANGED driver

ExecuteToolCall == DoExecuteToolCall(ToolCalls) /\ UNCHANGED driver

\* a chat adds at most three entries
RoomInHistory == Len(conversation_history) + 3 <= MaxHistory

Chat == RoomInHistory /\ DoChat /\ UNCHANGED driver

GetConversationHistory == DoGetConversationHistory /\ UNCHANGED driver

ClearConversation == DoClearConversation /\ UNCHANGED driver

Next ==
    \/ Connect
    \/ Disconnect
    \/ GetAvailableTools
    \/ ExecuteToolCall
    \/ Chat
    \/ GetConversationHistory
    \/ ClearConversation

Spec == Init /\ [][Next]_vars

(***************************************************************************)
(* The drivers: main.py (interactive session and demo) and test_mcp.py     *)
(***************************************************************************)
DemoQueries == 3

\* the five calls of test_mcp.py, in its order
TestCode ==
    <<"\n", "def factorial(n):", "\n", "    if n == 0 or n == 1:", "\n",
      "        return 1", "\n", "    return n * factorial(n-1)", "\n">>

TestCalls ==
    <<[name |-> "system_info", input |-> << >>],
      [name |-> "web_search",
       input |-> [query |-> JStr(<<"MCP framework">>), max_results |-> JInt(3)]],
      [name |-> "file_operations",
       input |-> [operation |-> JStr(<<"list">>), path |-> JStr(<<".">>)]],
      [name |-> "code_analysis",
       input |-> [code |-> JStr(TestCode), language |-> JStr(<<"python">>)]],
      [name |-> "data_processing",
       input |-> [data |-> JList(<<1, 2, 3, 4, 5>>), operation |-> JStr(<<"sum">>)]]>>

\* where a driver starts once the agent is constructed
Started(mode, pc) ==
    [pc |-> pc, mode |-> mode, queries |-> 0, fatal |-> FALSE, printed |-> ""]

DriverInit ==
    /\ AgentInit
    /\ NoCall
    /\ arg = << >>
    /\ driver \in {Started("interactive", "startup"), Started("demo", "demo_tools"),
                   Started("test", "aenter")}

\* the driver goes on to pc, having printed what
Goto(pc, queries, what) ==
    driver' = [driver EXCEPT !.pc = pc, !.queries = queries, !.printed = what]

\* an exception leaves the driver's function: control passes to the handler
\* that encloses it, and the process ends with it
Propagate(pc) ==
    driver' = [driver EXCEPT !.pc = pc, !.fatal = TRUE]

\* run_interactive_session, line 22: discovery before the loop, outside its try
Startup ==
    /\ driver.pc = "startup"
    /\ DoGetAvailableTools
    /\ IF outcome' = "raised" THEN Propagate("finally") ELSE Goto("loop", 0, "tools")

\* quit, exit or Ctrl+C at the prompt
LoopQuit ==
    /\ driver.pc = "loop"
    /\ Goto("finally", 0, "goodbye")
    /\ UNCHANGED <<conversation_history, mcp_session, exit_stack, config,
                   lastOp, prevOp, arg, outcome, ret, exc, events, orphaned>>

LoopClear ==
    /\ driver.pc = "loop"
    /\ DoClearConversation
    /\ Goto("loop", 0, "cleared")

LoopTools ==
    /\ driver.pc = "loop"
    /\ DoGetAvailableTools
    /\ Goto("loop", 0, IF outcome' = "raised" THEN "error" ELSE "tools")

\* an empty line
LoopEmpty ==
    /\ driver.pc = "loop"
    /\ Goto("loop", 0, "")
    /\ UNCHANGED <<conversation_history, mcp_session, exit_stack, config,
                   lastOp, prevOp, arg, outcome, ret, exc, events, orphaned>>

LoopChat ==
    /\ driver.pc = "loop"
    /\ RoomInHistory
    /\ DoChat
    /\ Goto("loop", 0, IF outcome' = "raised" THEN "error" ELSE "response")

\* run_demo_mode: no handler of its own
DemoTools ==
    /\ driver.pc = "demo_tools"
    /\ DoGetAvailableTools
    /\ IF outcome' = "raised" THEN Propagate("finally")
       ELSE Goto("demo_query", DemoQueries, "tools")

DemoQuery ==
    /\ driver.pc = "demo_query"
    /\ DoChat
    /\ IF outcome' = "raised" THEN Propagate("finally")
       ELSE Goto(IF driver.queries = 1 THEN "finally" ELSE "demo_query",
                 driver.queries - 1, "response")

\* main's finally clause, then the handlers around asyncio.run(main())
Finally ==
    /\ driver.pc = "finally"
    /\ DoDisconnect
    /\ Goto("done", 0, IF driver.fatal THEN "fatal" ELSE driver.printed)

\* test_mcp.py: async with ClaudeAgent(config) as agent; when __aenter__
\* raises the block is not entered and __aexit__ is not called
AEnter ==
    /\ driver.pc = "aenter"
    /\ DoConnect
    /\ IF outcome' = "raised" THEN Propagate("done") ELSE Goto("test_tools", 0, "")

TestTools ==
    /\ driver.pc = "test_tools"
    /\ DoGetAvailableTools
    /\ IF outcome' = "raised" THEN Propagate("aexit")
       ELSE Goto("test_calls", 0, "tools")

\* each call in its own try / except Exception
TestCall ==
    /\ driver.pc = "test_calls"
    /\ DoExecuteToolCall({TestCalls[driver.queries + 1]})
    /\ Goto(IF driver.queries + 1 = Len(TestCalls) THEN "aexit" ELSE "test_calls",
            driver.queries + 1, IF outcome' = "raised" THEN "error" ELSE "result")

AExit ==
    /\ driver.pc = "aexit"
    /\ DoDisconnect
    /\ Goto("done", 0, driver.printed)

DriverNext ==
    \/ Startup \/ LoopQuit \/ LoopClear \/ LoopTools \/ LoopEmpty \/ LoopChat
    \/ DemoTools \/ DemoQuery \/ Finally
    \/ AEnter \/ TestTools \/ TestCall \/ AExit

DriverSpec == DriverInit /\ [][DriverNext]_vars

(***************************************************************************)
(* The tools on their own: an input is drawn, the tool function is applied *)
(***************************************************************************)
MaxResults == 5

MaxLen == 3

Queries == {<< >>, Test, <<"it", "'", "s">>}

\* the max_results that are passed: none, a null, integers from -1 up to the
\* bound, and the 10 of the signature's default
SearchInputs ==
    {[query |-> JStr(q)] : q \in Queries}
    \cup {[query |-> JStr(q), max_results |-> m] :
             q \in Queries, m \in {JNull, JInt(10)} \cup {JInt(n) : n \in -1..MaxResults}}

\* the lists of records of a length up to the bound
Lists == UNION {[1..n -> {1, 2}] : n \in 0..MaxLen}

Operations ==
    {<<"filter">>, <<"sort">>, <<"aggregate">>, <<"transform">>, <<"sum">>, << >>}

DataInputs ==
    {[data |-> JList(l), operation |-> JStr(o)] : l \in Lists, o \in Operations}

ToolInit ==
    /\ AgentInit
    /\ NoCall
    /\ driver = NoDriver
    /\ arg \in {[name |-> "web_search", input |-> a] : a \in SearchInputs}
               \cup {[name |-> "data_processing", input |-> a] : a \in DataInputs}

\* the tool function returned or raised r
Applied(r) ==
    /\ lastOp' = arg.name
    /\ prevOp' = lastOp
    /\ outcome' = IF r.raised THEN "raised" ELSE "returned"
    /\ ret' = r.value
    /\ exc' = r.exc
    /\ UNCHANGED <<conversation_history, mcp_session, exit_stack, config,
                   arg, events, orphaned, driver>>

WebSearch ==
    /\ lastOp = "__init__"
    /\ arg.name = "web_search"
    /\ Applied(web_search(arg.input))

DataProcessing ==
    /\ lastOp = "__init__"
    /\ arg.name = "data_processing"
    /\ Applied(data_processing(arg.input))

ToolNext == WebSearch \/ DataProcessing

ToolSpec == ToolInit /\ [][ToolNext]_vars

(***************************************************************************)
(* Reading the log of the last operation                                   *)
(***************************************************************************)
OfKind(kind) == SelectSeq(events, LAMBDA e : e.kind = kind)

ModelCalls == OfKind("messages.create")

ToolInvocations == OfKind("execute_tool_call")

ServerCalls == OfKind("call_tool")

ConnectAttempts == OfKind("connect")

ToolUseBlocks(content) == SelectSeq(content, LAMBDA b : b.type = "tool_use")

\* the last operation was a chat whose first model call was answered
ChatAnswered ==
    /\ lastOp = "chat"
    /\ ModelCalls # << >>
    /\ ~ModelCalls[1].response.raised

FirstContent == ModelCalls[1].response.content

(***************************************************************************)
(* C1: in a chat call whose first model response has no tool_use block,    *)
(* one model call is made and no tool is invoked; with k >= 1 tool_use     *)
(* blocks, two model calls are made and k tools are invoked, the i-th      *)
(* with the name and arguments of the i-th block, unchanged on the way to  *)
(* the server.                                                             *)
(***************************************************************************)
C1_CallsPerResponse ==
    ChatAnswered =>
        LET blocks == ToolUseBlocks(FirstContent)
        IN  IF blocks = << >>
            THEN Len(ModelCalls) = 1 /\ ToolInvocations = << >> /\ ServerCalls = << >>
            ELSE /\ Len(ModelCalls) = 2
                 /\ Len(ToolInvocations) = Len(blocks)
                 /\ Len(ServerCalls) = Len(blocks)
                 /\ \A i \in DOMAIN blocks :
                        /\ ToolInvocations[i].name = blocks[i].name
                        /\ ToolInvocations[i].input = blocks[i].input
                        /\ ServerCalls[i].name = blocks[i].name
                        /\ ServerCalls[i].input = blocks[i].input

C1_Witness ==
    /\ ChatAnswered
    /\ Len(ToolUseBlocks(FirstContent)) = 2
    /\ Len(ToolInvocations) = 2
    /\ DOMAIN ToolInvocations[2].input # {}

(***************************************************************************)
(* C2 as stated: clear_conversation() followed by a chat that reaches the  *)
(* model leaves exactly two entries, the user message and one assistant    *)
(* message.                                                                *)
(***************************************************************************)
ClearThenChat == lastOp = "chat" /\ prevOp = "clear_conversation"

C2_Original ==
    (ClearThenChat /\ arg = <<"h", "i">> /\ outcome = "returned") =>
        /\ Len(conversation_history) = 2
        /\ conversation_history[1] = Message("user", arg)
        /\ conversation_history[2].role = "assistant"

\* the first response carried tool_use blocks together with non-empty text
TextWithToolUse ==
    /\ ChatAnswered
    /\ HasToolUse(FirstContent)
    /\ \E i \in DOMAIN FirstContent :
           FirstContent[i].type = "text" /\ FirstContent[i].text # << >>

(***************************************************************************)
(* C2 amended: clear_conversation() followed by chat(m) leaves the user    *)
(* message m followed by assistant messages only: two entries in all, or   *)
(* three when the first response carried tool_use blocks together with     *)
(* non-empty text, or the user message alone when chat raised during tool  *)
(* discovery.                                                              *)
(***************************************************************************)
C2_ClearThenChat ==
    ClearThenChat =>
        /\ conversation_history[1] = Message("user", arg)
        /\ \A i \in 2..Len(conversation_history) :
               conversation_history[i].role = "assistant"
        /\ Len(conversation_history) =
               IF outcome = "raised" THEN 1
               ELSE IF TextWithToolUse THEN 3 ELSE 2

C2_Witness ==
    /\ ClearThenChat
    /\ TextWithToolUse
    /\ Len(conversation_history) = 3
    /\ arg = <<"h", "i">>

(***************************************************************************)
(* C3: chat never raises; whatever fails during the call, chat returns a   *)
(* string and that string is the last entry of the history, as an          *)
(* assistant message.                                                      *)
(***************************************************************************)
C3_ChatNeverRaises ==
    lastOp = "chat" =>
        /\ outcome = "returned"
        /\ conversation_history[Len(conversation_history)] = Message("assistant", ret)

(***************************************************************************)
(* C4: a tool name that is not registered, sent through execute_tool_call  *)
(* to the server's call_tool, yields a result with success = false and a   *)
(* non-empty error text that contains the name.                            *)
(***************************************************************************)
C4_UnknownToolFails ==
    (/\ lastOp = "execute_tool_call"
     /\ outcome = "returned"
     /\ arg.name \notin RegisteredNames
     /\ ServerCalls # << >>
     /\ ServerCalls[1].response = "ok") =>
        /\ ret.success = FALSE
        /\ ret.error # None
        /\ ret.error[1] # << >>
        /\ arg.name \in Range(ret.error[1])

(***************************************************************************)
(* C5: no exception leaves execute_tool_call, whatever the endpoint state, *)
(* and when the dispatch or the tool body raised on the server the result  *)
(* has success = false and the exception's message as error.               *)
(***************************************************************************)
C5_FaultBecomesError ==
    lastOp = "execute_tool_call" =>
        /\ outcome = "returned"
        /\ \A i \in DOMAIN ServerCalls :
               LET fault == Dispatch(ServerCalls[i].name, ServerCalls[i].input)
               IN  (ServerCalls[i].response = "ok" /\ fault.raised) =>
                       /\ ret.success = FALSE
                       /\ ret.error = Some(fault.exc)

(***************************************************************************)
(* C6: disconnect_from_mcp_server raises nothing and leaves mcp_session    *)
(* and exit_stack None, also when no connect was ever made; a second call  *)
(* in a row closes nothing and changes nothing.                            *)
(***************************************************************************)
C6_DisconnectIdempotent ==
    [][lastOp' = "disconnect_from_mcp_server" =>
          /\ outcome' = "returned"
          /\ mcp_session' = None
          /\ exit_stack' = None
          /\ conversation_history' = conversation_history
          /\ lastOp = "disconnect_from_mcp_server" =>
                 /\ mcp_session' = mcp_session
                 /\ exit_stack' = exit_stack
                 /\ events' = << >>]_vars

C6_Witness ==
    /\ lastOp = "disconnect_from_mcp_server"
    /\ prevOp = "disconnect_from_mcp_server"
    /\ mcp_session = None
    /\ exit_stack = None

(***************************************************************************)
(* C7: when a connect attempt fails, the failure reaches the caller and    *)
(* mcp_session is None afterwards; list_tools and call_tool are only sent  *)
(* on a session whose initialize completed.                                *)
(***************************************************************************)
C7_FailedConnectDisconnected ==
    /\ (\E i \in DOMAIN events :
            events[i].kind = "connect" /\ events[i].response # "ok") =>
           (outcome = "raised" /\ mcp_session = None)
    /\ \A i \in DOMAIN events :
           events[i].kind \in {"list_tools", "call_tool"} =>
               events[i].session = Some(ClientSession(TRUE))

(***************************************************************************)
(* C8: a chat call makes at most two model calls, invokes as many tools    *)
(* as the first response has tool_use blocks, and invokes none after the   *)
(* second model call, whatever the second response contains.               *)
(***************************************************************************)
C8_SingleRound ==
    lastOp = "chat" =>
        /\ Len(ModelCalls) <= 2
        /\ Len(ToolInvocations) =
               IF ChatAnswered THEN NumToolUse(FirstContent) ELSE 0
        /\ \A i, j \in DOMAIN events :
               (/\ i < j
                /\ events[i].kind = "messages.create"
                /\ events[j].kind = "messages.create") =>
                   \A k \in DOMAIN events :
                       events[k].kind \in {"execute_tool_call", "call_tool"} => k < j

C8_Witness ==
    /\ lastOp = "chat"
    /\ outcome = "returned"
    /\ Len(ModelCalls) = 2
    /\ ~ModelCalls[2].response.raised
    /\ HasToolUse(ModelCalls[2].response.content)

\* the serialised tool results that carry the failure message, as it is or
\* behind the server's "Error: ", in result or in error
FailureCarriers(msg) ==
    LET texts == {None, Some(msg), Some(<<"Error: ">> \o msg)}
    IN  {JsonDumps(ToolResult(x[1], x[2], x[3])) :
            x \in (BOOLEAN \X texts \X texts) \ (BOOLEAN \X {None} \X {None})}

\* the i-th tool execution of the last chat failed, with this message
FailureOf(i) ==
    LET call  == ServerCalls[i]
        fault == Dispatch(call.name, call.input)
    IN  IF call.response = "fail" THEN Some(TransportError("call_tool"))
        ELSE IF fault.raised THEN Some(fault.exc)
        ELSE None

(***************************************************************************)
(* C9: when the execution of a tool_use block fails (unknown tool, tool    *)
(* fault, transport error), chat does not raise, every block is executed,  *)
(* the follow-up model call is made, and its last message holds, at the    *)
(* block's position and under the block's call id, a result that contains  *)
(* the failure message.                                                    *)
(***************************************************************************)
C9_FailureReachesModel ==
    (/\ ChatAnswered
     /\ \E i \in DOMAIN ServerCalls : FailureOf(i) # None) =>
        LET blocks == ToolUseBlocks(FirstContent)
        IN  /\ outcome = "returned"
            /\ Len(ServerCalls) = Len(blocks)
            /\ Len(ModelCalls) = 2
            /\ LET messages == ModelCalls[2].request.messages
                   results  == messages[Len(messages)]
               IN  /\ results.role = "user"
                   /\ Len(results.content) = Len(blocks)
                   /\ \A i \in DOMAIN blocks :
                          /\ results.content[i].tool_use_id = blocks[i].id
                          /\ FailureOf(i) # None =>
                                 results.content[i].content \in
                                     FailureCarriers(FailureOf(i)[1])

C9_Witness ==
    /\ ChatAnswered
    /\ Len(ServerCalls) = 2
    /\ FailureOf(1) # None
    /\ FailureOf(2) # None
    /\ ServerCalls[1].response = "fail"
    /\ Len(ModelCalls) = 2

(***************************************************************************)
(* C10: get_available_tools and chat make at most one connect attempt; a   *)
(* failed attempt ends the call, nothing is tried after it, and its error  *)
(* is raised to the caller.                                                *)
(***************************************************************************)
C10_ConnectErrorSurfaced ==
    lastOp \in {"get_available_tools", "chat"} =>
        /\ Len(ConnectAttempts) <= 1
        /\ \A i \in DOMAIN events :
               (events[i].kind = "connect" /\ events[i].response # "ok") =>
                   /\ i = Len(events)
                   /\ outcome = "raised"
                   /\ exc = ConnectError(events[i].response)

C10_Witness ==
    /\ lastOp = "chat"
    /\ outcome = "raised"
    /\ Len(ConnectAttempts) = 1
    /\ ConnectAttempts[1].response = "initialize_fail"

(***************************************************************************)
(* C11: whenever a driver has ended (main, or the async with block of      *)
(* test_mcp.py), normally or through an error, the agent holds no session  *)
(* and no server process opened by an earlier connect attempt is left      *)
(* open, neither on the agent's exit stack nor out of its reach.           *)
(***************************************************************************)
C11_ReleasedOnExit ==
    driver.pc = "done" =>
        /\ mcp_session = None
        /\ Holds(exit_stack) = 0
        /\ ~orphaned

(***************************************************************************)
(* C12: no failure ends a driver run: no exception leaves the session      *)
(* function of a driver, start-up tool discovery included, and the         *)
(* "Fatal error" handler around main is never the one that prints.         *)
(***************************************************************************)
C12_NoErrorIsFatal ==
    /\ ~driver.fatal
    /\ driver.printed # "fatal"

(***************************************************************************)
(* C13: clear_conversation() leaves the history empty and changes nothing  *)
(* else: mcp_session, exit_stack and the configuration stay as they were,  *)
(* nothing is raised, and no connect, disconnect, tool call or model call  *)
(* is made.                                                                *)
(***************************************************************************)
C13_ClearOnlyClears ==
    [][lastOp' = "clear_conversation" =>
          /\ conversation_history' = << >>
          /\ mcp_session' = mcp_session
          /\ exit_stack' = exit_stack
          /\ config' = config
          /\ orphaned' = orphaned
          /\ outcome' = "returned"
          /\ events' = << >>]_vars

C13_Witness ==
    /\ lastOp = "clear_conversation"
    /\ prevOp = "chat"
    /\ conversation_history = << >>
    /\ mcp_session = Some(ClientSession(TRUE))
    /\ exit_stack # None

(***************************************************************************)
(* C14: get_available_tools, execute_tool_call and chat make a connect     *)
(* attempt exactly when the agent holds no session; no server process is   *)
(* started while one started earlier is still open, so at most one process *)
(* is open per agent between disconnects; and list_tools and call_tool are *)
(* only sent on a session whose initialize completed.                      *)
(***************************************************************************)
C14_LazySingleConnection ==
    [][/\ lastOp' \in {"get_available_tools", "execute_tool_call", "chat"} =>
              ((\E i \in DOMAIN events' : events'[i].kind = "connect")
                   <=> mcp_session = None)
       /\ (\E i \in DOMAIN events' :
               events'[i].kind = "connect" /\ events'[i].response # "spawn_fail") =>
              Holds(exit_stack) = 0
       /\ \A i \in DOMAIN events' :
              events'[i].kind \in {"list_tools", "call_tool"} =>
                  events'[i].session = Some(ClientSession(TRUE))]_vars

(***************************************************************************)
(* C15: for every query and every integer max_results >= 0, web_search     *)
(* returns min(max_results, 3) results, the i-th (from 1) with the title   *)
(* "Result i for '<query>'", and total_results equal to max_results.       *)
(***************************************************************************)
C15_SearchResults ==
    (/\ lastOp = "web_search"
     /\ "max_results" \in DOMAIN arg.input
     /\ JType(arg.input.max_results) = "int"
     /\ JVal(arg.input.max_results) >= 0) =>
        /\ outcome = "returned"
        /\ Len(ret.results) = Min(JVal(arg.input.max_results), 3)
        /\ \A i \in 1..Len(ret.results) :
               ret.results[i].title =
                   <<"Result ", ToString(i), " for '">> \o JVal(arg.input.query) \o <<"'">>
        /\ ret.total_results = JVal(arg.input.max_results)

C15_Witness ==
    /\ lastOp = "web_search"
    /\ arg.input = ArgsSearch
    /\ Len(ret.results) = 3
    /\ ret.results[3].title = <<"Result ", "3", " for '", "t", "e", "s", "t", "'">>
    /\ ret.total_results = 10

(***************************************************************************)
(* C16: for every data list of length N >= 0 and every operation string,   *)
(* data_processing returns input_count = N, output_count = max(0, N - 1)   *)
(* and as preview the first min(N, 2) elements of data, in order.          *)
(***************************************************************************)
C16_DataCounts ==
    lastOp = "data_processing" =>
        LET data == JVal(arg.input.data)
            N    == Len(data)
        IN  /\ outcome = "returned"
            /\ ret.input_count = N
            /\ ret.output_count = (IF N >= 1 THEN N - 1 ELSE 0)
            /\ Len(ret.preview) = (IF N < 2 THEN N ELSE 2)
            /\ \A i \in 1..Len(ret.preview) : ret.preview[i] = data[i]

C16_Witness ==
    /\ lastOp = "data_processing"
    /\ arg.input.data = JList(<< >>)
    /\ arg.input.operation = JStr(<<"sum">>)
    /\ ret.input_count = 0
    /\ ret.output_count = 0
    /\ ret.preview = << >>

(***************************************************************************)
(* C17: the server's list_tools response is always the same five           *)
(* descriptors, with pairwise distinct names, in the order web_search,     *)
(* file_operations, code_analysis, data_processing, system_info; and       *)
(* get_available_tools returns exactly these, in this order: the i-th      *)
(* returned tool is the i-th descriptor, nothing added or dropped.         *)
(***************************************************************************)
C17_ToolsInOrder ==
    /\ [i \in DOMAIN list_tools |-> list_tools[i].name] =
           <<"web_search", "file_operations", "code_analysis", "data_processing",
             "system_info">>
    /\ \A i, j \in DOMAIN list_tools : i # j => list_tools[i].name # list_tools[j].name
    /\ (lastOp = "get_available_tools" /\ outcome = "returned") =>
           /\ Len(ret) = Len(list_tools)
           /\ \A i \in DOMAIN ret :
                  /\ ret[i].name = list_tools[i].name
                  /\ ret[i].description = list_tools[i].description
                  /\ ret[i].input_schema = list_tools[i].inputSchema

C17_Witness ==
    /\ lastOp = "get_available_tools"
    /\ outcome = "returned"
    /\ prevOp = "get_available_tools"
    /\ Len(ret) = 5
    /\ ret[1].name = "web_search"
    /\ ret[5].name = "system_info"

(***************************************************************************)
(* C18: the history is append-only: every call other than                  *)
(* clear_conversation, a chat that ends in an error included, leaves the   *)
(* history it found as a prefix of the history it leaves, so that between  *)
(* two clears every earlier history is a prefix of every later one.        *)
(***************************************************************************)
C18_AppendOnly ==
    [][lastOp' # "clear_conversation" =>
          /\ Len(conversation_history) <= Len(conversation_history')
          /\ \A i \in DOMAIN conversation_history :
                 conversation_history'[i] = conversation_history[i]]_vars

C18_Witness ==
    /\ lastOp = "chat"
    /\ prevOp = "chat"
    /\ outcome = "returned"
    /\ Len(conversation_history) = 4
    /\ conversation_history[1] = Message("user", <<"h", "i">>)
    /\ conversation_history[2] = Message("user", <<"g", "o">>)
    /\ conversation_history[4].role = "assistant"

\* the texts a chat with a follow-up call may file as assistant messages: the
\* text that came with the tool_use blocks, the final text, the error message
FiledTexts ==
    {TextOf(FirstContent)}
    \cup (IF ModelCalls[2].response.raised
          THEN {<<"Error communicating with Claude: ">> \o ModelCalls[2].response.exc}
          ELSE {TextOf(ModelCalls[2].response.content)})

(***************************************************************************)
(* C19: every entry of the history has the role user or assistant; the     *)
(* tool_use blocks and the tool results of a chat are carried by the two   *)
(* entries that the follow-up request adds to the first request's message  *)
(* list, and what that chat files in the history after the user message    *)
(* is assistant text only.                                                 *)
(***************************************************************************)
C19_OnlyUserAndAssistant ==
    /\ \A i \in DOMAIN conversation_history :
           conversation_history[i].role \in {"user", "assistant"}
    /\ (lastOp = "chat" /\ Len(ModelCalls) = 2) =>
           LET m == ModelCalls[2].request.messages
               n == Len(ModelCalls[1].request.messages)
           IN  /\ Len(m) = n + 2
               /\ m[n + 1] = [role |-> "assistant", content |-> FirstContent]
               /\ m[n + 2].role = "user"
               /\ Len(m[n + 2].content) = NumToolUse(FirstContent)
               /\ conversation_history[n] = Message("user", arg)
               /\ \A i \in (n + 1)..Len(conversation_history) :
                      /\ conversation_history[i].role = "assistant"
                      /\ conversation_history[i].content \in FiledTexts

C19_Witness ==
    /\ lastOp = "chat"
    /\ outcome = "returned"
    /\ Len(ModelCalls) = 2
    /\ NumToolUse(FirstContent) = 2
    /\ Len(conversation_history) = 3
    /\ conversation_history[2].role = "user"

\* where in the log of the last operation the i-th call of a kind stands
PositionOf(kind, i) ==
    CHOOSE k \in DOMAIN events :
        /\ events[k].kind = kind
        /\ Cardinality({j \in 1..k : events[j].kind = kind}) = i

(***************************************************************************)
(* C20: when the first response carries several tool_use blocks, the tools *)
(* are executed one at a time in the order of the blocks: the call for one *)
(* block has its answer before the execution for the next block begins,    *)
(* and the last call has its answer before the follow-up model call; the   *)
(* list of results sent with the follow-up request has one entry per       *)
(* block, in the order of the blocks, each with the id of its block and    *)
(* the serialised result of that block's execution.                        *)
(***************************************************************************)
C20_ToolsInBlockOrder ==
    (ChatAnswered /\ HasToolUse(FirstContent)) =>
        LET blocks == ToolUseBlocks(FirstContent)
            n      == Len(blocks)
        IN  /\ Len(ToolInvocations) = n
            /\ Len(ServerCalls) = n
            /\ Len(ModelCalls) = 2
            /\ \A i \in 1..n :
                   /\ ToolInvocations[i].name = blocks[i].name
                   /\ ToolInvocations[i].input = blocks[i].input
                   /\ PositionOf("execute_tool_call", i) < PositionOf("call_tool", i)
                   /\ PositionOf("call_tool", i) < PositionOf("messages.create", 2)
                   /\ i < n => PositionOf("call_tool", i)
                                   < PositionOf("execute_tool_call", i + 1)
            /\ LET m            == ModelCalls[2].request.messages
                   tool_results == m[Len(m)].content
               IN  /\ Len(tool_results) = n
                   /\ \A i \in 1..n :
                          /\ tool_results[i].tool_use_id = blocks[i].id
                          /\ tool_results[i].content =
                                 JsonDumps(execute_tool_call(
                                     Agent, << >>, blocks[i].name, blocks[i].input,
                                     "ok", ServerCalls[i].response).ret)

C20_Witness ==
    /\ ChatAnswered
    /\ Len(ToolUseBlocks(FirstContent)) = 2
    /\ Len(ModelCalls) = 2
    /\ ServerCalls[1].response = "fail"
    /\ ServerCalls[2].response = "ok"
    /\ LET m == ModelCalls[2].request.messages
       IN  /\ m[Len(m)].content[1].tool_use_id = "toolu_1"
           /\ m[Len(m)].content[2].tool_use_id = "toolu_2"
           /\ m[Len(m)].content[1].content # m[Len(m)].content[2].content

(***************************************************************************)
(* C21: the message list of the follow-up request is the message list of   *)
(* the first request, which is the history up to and including the new    *)
(* user message, followed by one assistant entry with the content blocks   *)
(* of the first response and one user entry with the tool results; the     *)
(* accompanying text filed in the history during the call is not in it.    *)
(***************************************************************************)
C21_FollowUpMessages ==
    (lastOp = "chat" /\ Len(ModelCalls) = 2) =>
        LET first  == ModelCalls[1].request.messages
            m      == ModelCalls[2].request.messages
            n      == Len(first)
            blocks == ToolUseBlocks(FirstContent)
        IN  /\ Len(m) = n + 2
            /\ first = MessagesOf(SubSeq(conversation_history, 1, n))
            /\ first[n] = [role |-> "user", content |-> arg]
            /\ SubSeq(m, 1, n) = first
            /\ m[n + 1] = [role |-> "assistant", content |-> FirstContent]
            /\ m[n + 2] =
                   [role |-> "user",
                    content |->
                        [i \in 1..Len(blocks) |->
                            ToolResultEntry(
                                blocks[i],
                                execute_tool_call(Agent, << >>, blocks[i].name,
                                                  blocks[i].input, "ok",
                                                  ServerCalls[i].response).ret)]]

C21_Witness ==
    /\ lastOp = "chat"
    /\ outcome = "returned"
    /\ Len(ModelCalls) = 2
    /\ TextWithToolUse
    /\ Len(conversation_history) = 4
    /\ Len(ModelCalls[1].request.messages) = 2
    /\ Len(ModelCalls[2].request.messages) = 4

(***************************************************************************)
(* C22: whenever chat returns a string, the last entry of the history is   *)
(* an assistant message whose content is the returned string: after a      *)
(* plain text response, after a tool-use response, and after a model-call  *)
(* error on the first or on the follow-up call.                            *)
(***************************************************************************)
C22_ReturnedIsLastEntry ==
    (lastOp = "chat" /\ outcome = "returned") =>
        /\ conversation_history # << >>
        /\ conversation_history[Len(conversation_history)].role = "assistant"
        /\ conversation_history[Len(conversation_history)].content = ret

C22_Witness ==
    /\ lastOp = "chat"
    /\ outcome = "returned"
    /\ Len(ModelCalls) = 2
    /\ ModelCalls[2].response.raised
    /\ ret = <<"Error communicating with Claude: ">> \o ModelCalls[2].response.exc
    /\ conversation_history[Len(conversation_history)] = Message("assistant", ret)

(***************************************************************************)
(* C23: a chat call that returns adds exactly two entries to the history   *)
(* (user, assistant) or exactly three (user, assistant, assistant), and    *)
(* three exactly when the first model response carried a tool_use block    *)
(* together with non-empty text; a chat call that raises adds exactly one  *)
(* entry, the user message, and no assistant entry.                        *)
(***************************************************************************)
C23_GrowthPerChat ==
    [][lastOp' = "chat" =>
          LET before == Len(conversation_history)
              added  == Len(conversation_history') - before
          IN  /\ added >= 1
              /\ conversation_history'[before + 1] = Message("user", arg')
              /\ \A i \in (before + 2)..Len(conversation_history') :
                     conversation_history'[i].role = "assistant"
              /\ outcome' = "raised" => added = 1
              /\ outcome' = "returned" =>
                     /\ added \in {2, 3}
                     /\ added = 3 <=> TextWithToolUse']_vars

C23_Witness ==
    /\ lastOp = "chat"
    /\ prevOp = "chat"
    /\ outcome = "returned"
    /\ TextWithToolUse
    /\ ModelCalls[2].response.raised
    /\ Len(conversation_history) = 4
    /\ conversation_history[1].role = "user"
    /\ conversation_history[2].role = "user"

(***************************************************************************)
(* C24: in every state between operations, the states left by operations  *)
(* that raised included, a non-None mcp_session comes with a non-None      *)
(* exit_stack that has the client session on it; so that a disconnect,     *)
(* which acts when exit_stack is set, always leaves mcp_session None.      *)
(***************************************************************************)
C24_SessionOwnedByStack ==
    /\ mcp_session # None =>
           /\ exit_stack # None
           /\ "ClientSession" \in Range(exit_stack[1])
    /\ lastOp = "disconnect_from_mcp_server" => mcp_session = None

C24_Witness ==
    /\ lastOp = "get_available_tools"
    /\ outcome = "raised"
    /\ Len(ConnectAttempts) = 1
    /\ mcp_session = Some(ClientSession(FALSE))
    /\ exit_stack = Some(<<"stdio_client", "ClientSession">>)

====
